---- MODULE Spec2Model ----
(***************************************************************************)
(* Conversation memory of the chat application: the SQLite-backed          *)
(* transcript store (src/memory.py, class SQLiteMemory), the history       *)
(* formatter convert_tuple_list_to_text, and the chat input handler of     *)
(* src/main.py that uses them.                                             *)
(*                                                                         *)
(* A text is a sequence of one-character strings.  json_dumps and          *)
(* json_loads follow Python's json module on texts over Alphabet; JSON     *)
(* arrays, objects and \uXXXX escapes need characters outside Alphabet     *)
(* and are not part of the model.  Where Python binds a local variable,   *)
(* the model binds it as CHOOSE v \in {..., x \in {value}} : TRUE, which    *)
(* evaluates the value once.                                               *)
(***************************************************************************)
EXTENDS Integers, Sequences, FiniteSets

\* ------------------------------------------------------------------ bounds

\* Longest text enumerated as a role or content of the codec scenario.
MaxLen == 3
\* Most rows the store scenario writes.
MaxEntries == 3
\* load_recent is called with limits from -MaxNegLimit up to MaxEntries + 1.
MaxNegLimit == 2
\* Most script runs of the chat scenario.
MaxRuns == 2

\* ------------------------------------------------------------------- texts

QUOTE == "\""
BACKSLASH == "\\"
NEWLINE == "\n"

\* The characters enumerated texts are built from.
Chars == {"n", "1", QUOTE, BACKSLASH, NEWLINE, ":", " "}

\* Every character a text of the model can hold: Chars and the letters of
\* the fixed role names, prompts and responses.
Alphabet == Chars \cup {"U", "s", "e", "r", "A", "g", "t", "N", "w", "S",
                        "i", "o", "a", "d", "H", "k"}

RECURSIVE TextsOfLen(_)
TextsOfLen(k) ==
    IF k = 0 THEN {<<>>}
    ELSE {Append(t, c) : t \in TextsOfLen(k - 1), c \in Chars}

TextsUpTo(k) == UNION {TextsOfLen(j) : j \in 0..k}

\* ------------------------------------------------------------- json.dumps

\* json.dumps of a str (ensure_ascii): the text between double quotes, with
\* the quote, the backslash and control characters escaped.
EscapeChar(c) ==
    IF c = QUOTE THEN <<BACKSLASH, QUOTE>>
    ELSE IF c = BACKSLASH THEN <<BACKSLASH, BACKSLASH>>
    ELSE IF c = NEWLINE THEN <<BACKSLASH, "n">>
    ELSE IF c = "\t" THEN <<BACKSLASH, "t">>
    ELSE IF c = "\r" THEN <<BACKSLASH, "r">>
    ELSE IF c = "\f" THEN <<BACKSLASH, "f">>
    ELSE <<c>>

RECURSIVE EscapeAll(_)
EscapeAll(x) ==
    IF x = <<>> THEN <<>> ELSE EscapeChar(Head(x)) \o EscapeAll(Tail(x))

json_dumps(x) == <<QUOTE>> \o EscapeAll(x) \o <<QUOTE>>

\* ------------------------------------------------------------- json.loads

Whitespace == {" ", "\t", NEWLINE, "\r"}
ControlChars == {"\t", NEWLINE, "\r", "\f"}
Digits == {"0", "1", "2", "3", "4", "5", "6", "7", "8", "9"}

\* The character at position i, or "" past the end.
At(s, i) == IF i >= 1 /\ i <= Len(s) THEN s[i] ELSE ""

\* Whether the text t stands in s at position i.
StartsAt(s, i, t) ==
    /\ i + Len(t) - 1 <= Len(s)
    /\ \A j \in 1..Len(t) : s[i + j - 1] = t[j]

\* The first position at or after i that holds no character of set.
RECURSIVE SkipWhile(_, _, _)
SkipWhile(s, i, set) ==
    IF i <= Len(s) /\ s[i] \in set THEN SkipWhile(s, i + 1, set) ELSE i

\* The escapes of a JSON string (json.decoder.BACKSLASH).
Unescape(c) ==
    CASE c = QUOTE -> QUOTE
      [] c = BACKSLASH -> BACKSLASH
      [] c = "/" -> "/"
      [] c = "n" -> NEWLINE
      [] c = "t" -> "\t"
      [] c = "r" -> "\r"
      [] c = "f" -> "\f"
      [] OTHER -> ""

\* json.decoder.py_scanstring, strict: the string whose opening quote has
\* been read, from position i on.  end = 0 reports a JSONDecodeError.
RECURSIVE ScanString(_, _, _)
ScanString(s, i, acc) ==
    IF i > Len(s) THEN [end |-> 0, val |-> <<>>]
    ELSE IF s[i] = QUOTE THEN [end |-> i + 1, val |-> acc]
    ELSE IF s[i] = BACKSLASH THEN
        IF Unescape(At(s, i + 1)) = "" THEN [end |-> 0, val |-> <<>>]
        ELSE ScanString(s, i + 2, Append(acc, Unescape(At(s, i + 1))))
    ELSE IF s[i] \in ControlChars THEN [end |-> 0, val |-> <<>>]
    ELSE ScanString(s, i + 1, Append(acc, s[i]))

\* json.scanner.NUMBER_RE, (-?(?:0|[1-9]\d*))(\.\d+)?([eE][-+]?\d+)?,
\* matched at position i: the position after the match, 0 when none.
ScanNumber(s, i) ==
    LET p1 == IF At(s, i) = "-" THEN i + 1 ELSE i
        p2 == IF At(s, p1) = "0" THEN p1 + 1
              ELSE IF At(s, p1) \in Digits THEN SkipWhile(s, p1, Digits)
              ELSE 0
        p3 == IF At(s, p2) = "." /\ At(s, p2 + 1) \in Digits
              THEN SkipWhile(s, p2 + 1, Digits) ELSE p2
        q  == IF At(s, p3 + 1) \in {"+", "-"} THEN p3 + 2 ELSE p3 + 1
        p4 == IF At(s, p3) \in {"e", "E"} /\ At(s, q) \in Digits
              THEN SkipWhile(s, q, Digits) ELSE p3
    IN IF p2 = 0 THEN 0 ELSE p4

\* json.scanner.py_make_scanner._scan_once at position i: the value's tag
\* ("str", or "nonstr" for a number, true, false, null, NaN, Infinity), its
\* text when a string, and the position after it (0: JSONDecodeError).
ScanOnce(s, i) ==
    IF At(s, i) = QUOTE THEN
        LET r == ScanString(s, i + 1, <<>>)
        IN [tag |-> "str", val |-> r.val, end |-> r.end]
    ELSE IF StartsAt(s, i, <<"n", "u", "l", "l">>) THEN
        [tag |-> "nonstr", val |-> <<>>, end |-> i + 4]
    ELSE IF StartsAt(s, i, <<"t", "r", "u", "e">>) THEN
        [tag |-> "nonstr", val |-> <<>>, end |-> i + 4]
    ELSE IF StartsAt(s, i, <<"f", "a", "l", "s", "e">>) THEN
        [tag |-> "nonstr", val |-> <<>>, end |-> i + 5]
    ELSE IF ScanNumber(s, i) # 0 THEN
        [tag |-> "nonstr", val |-> <<>>, end |-> ScanNumber(s, i)]
    ELSE IF StartsAt(s, i, <<"N", "a", "N">>) THEN
        [tag |-> "nonstr", val |-> <<>>, end |-> i + 3]
    ELSE IF StartsAt(s, i, <<"I", "n", "f", "i", "n", "i", "t", "y">>) THEN
        [tag |-> "nonstr", val |-> <<>>, end |-> i + 8]
    ELSE IF StartsAt(s, i, <<"-", "I", "n", "f", "i", "n", "i", "t", "y">>) THEN
        [tag |-> "nonstr", val |-> <<>>, end |-> i + 9]
    ELSE [tag |-> "err", val |-> <<>>, end |-> 0]

\* json.loads (JSONDecoder.decode): one value between optional whitespace;
\* anything else is a JSONDecodeError, tag "err".
DecodeResult(s, r) ==
    IF r.end = 0 \/ SkipWhile(s, r.end, Whitespace) # Len(s) + 1
    THEN [tag |-> "err", val |-> <<>>]
    ELSE [tag |-> r.tag, val |-> r.val]

json_loads(s) ==
    CHOOSE v \in {DecodeResult(s, r) :
                     r \in {ScanOnce(s, i) : i \in {SkipWhile(s, 1, Whitespace)}}} : TRUE

\* str.strip('"'): the text without its leading and trailing double quotes.
RECURSIVE StripQuotes(_)
StripQuotes(s) ==
    IF s # <<>> /\ Head(s) = QUOTE THEN StripQuotes(Tail(s))
    ELSE IF s # <<>> /\ s[Len(s)] = QUOTE
         THEN StripQuotes(SubSeq(s, 1, Len(s) - 1))
    ELSE s

\* -------------------------------------------- convert_tuple_list_to_text

\* One element of a tuple, as lines 128-134 clean it: json.loads of it, or,
\* on a JSONDecodeError, the element without its surrounding quotes.
CleanElement(element) ==
    CHOOSE v \in {IF r.tag = "err"
                  THEN [tag |-> "str", val |-> StripQuotes(element)]
                  ELSE r : r \in {json_loads(element)}} : TRUE

\* ": ".join(formatted_elements) of one (role, content) tuple: str.join
\* raises TypeError when an element is not a str.
JoinElements(role, content) ==
    IF role.tag # "str" \/ content.tag # "str"
    THEN [exc |-> "TypeError", text |-> <<>>]
    ELSE [exc |-> "none", text |-> role.val \o <<":", " ">> \o content.val]

FormatTuple(item) ==
    CHOOSE v \in {JoinElements(role, content) :
                     role \in {CleanElement(item[1])},
                     content \in {CleanElement(item[2])}} : TRUE

RECURSIVE JoinLines(_)
JoinLines(parts) ==
    IF parts = <<>> THEN <<>>
    ELSE IF Len(parts) = 1 THEN parts[1]
    ELSE parts[1] \o <<NEWLINE>> \o JoinLines(Tail(parts))

\* The whole function: the first tuple that raises aborts it.
JoinParts(parts) ==
    IF \E i \in 1..Len(parts) : parts[i].exc # "none"
    THEN [exc |-> "TypeError", text |-> <<>>]
    ELSE [exc |-> "none",
          text |-> JoinLines([i \in 1..Len(parts) |-> parts[i].text])]

convert_tuple_list_to_text(data) ==
    CHOOSE v \in {JoinParts(parts) :
                     parts \in {[i \in 1..Len(data) |-> FormatTuple(data[i])]}} : TRUE

\* ------------------------------------------------------------ the table

Min(a, b) == IF a <= b THEN a ELSE b
Range(f) == {f[i] : i \in DOMAIN f}

\* id INTEGER PRIMARY KEY AUTOINCREMENT: one more than the largest id the
\* table has held (no statement of the program deletes a row).
NextRowid_reuse(mem) ==
    IF mem = <<>> THEN 1 ELSE mem[Len(mem)].id

NextRowid(mem) ==
    IF mem = <<>> THEN 1
    ELSE 1 + (CHOOSE m \in {r.id : r \in Range(mem)} :
                 \A r \in Range(mem) : r.id <= m)

\* INSERT INTO memory: one new row after the rows already there.
Insert(mem, role, content, ts, cp) ==
    Append(mem, [id |-> NextRowid(mem), role |-> role, content |-> content,
                 timestamp |-> ts, is_checkpoint |-> cp])

\* ORDER BY id ASC (desc = FALSE) or DESC (desc = TRUE) of a set of rows.
RECURSIVE OrderById(_, _)
OrderById(S, desc) ==
    IF S = {} THEN <<>>
    ELSE LET r == CHOOSE r \in S : \A o \in S :
                      IF desc THEN o.id <= r.id ELSE o.id >= r.id
         IN <<r>> \o OrderById(S \ {r}, desc)

\* LIMIT n of SQLite: the first n rows; a negative n is no limit at all.
Limit(rows, n) ==
    IF n < 0 THEN rows ELSE SubSeq(rows, 1, Min(n, Len(rows)))

\* SELECT role, content: the columns a query returns of the rows it selects.
Project(sel) == [i \in 1..Len(sel) |-> <<sel[i].role, sel[i].content>>]

\* The INSERT of save: the content goes through json.dumps.
SaveRows_raw(mem, role, content, ts) ==
    Insert(mem, role, content, ts, FALSE)

SaveRows(mem, role, content, ts) ==
    Insert(mem, role, json_dumps(content), ts, FALSE)

\* The INSERT of save_checkpoint: the content is stored as given.
CheckpointRows(mem, role, content, ts) ==
    Insert(mem, role, content, ts, TRUE)

\* SELECT ... FROM memory ORDER BY id DESC LIMIT ?
SelectRecent_asc(mem, limit) == Limit(OrderById(Range(mem), FALSE), limit)

SelectRecent(mem, limit) == Limit(OrderById(Range(mem), TRUE), limit)

\* SELECT id FROM memory WHERE id = ? AND is_checkpoint = 1 finds a row.
CheckpointExists_anyrow(mem, checkpoint_id) ==
    \E r \in Range(mem) : r.id = checkpoint_id

CheckpointExists(mem, checkpoint_id) ==
    \E r \in Range(mem) : r.id = checkpoint_id /\ r.is_checkpoint

\* SELECT ... FROM memory WHERE id <= ? ORDER BY id ASC
SelectUpTo_exclusive(mem, checkpoint_id) ==
    OrderById({r \in Range(mem) : r.id < checkpoint_id}, FALSE)

SelectUpTo(mem, checkpoint_id) ==
    OrderById({r \in Range(mem) : r.id <= checkpoint_id}, FALSE)

\* ---------------------------------------------------------------- inputs

User == <<"U", "s", "e", "r">>
Agent == <<"A", "g", "e", "n", "t">>
\* The label of the checkpoint src/main.py writes when the script starts.
NewSessionStarted == <<"N", "e", "w", " ", "S", "e", "s", "s", "i", "o", "n",
                       " ", "S", "t", "a", "r", "t", "e", "d">>

\* datetime.datetime.now().isoformat(): whatever the clock reads.
Timestamps == {"t1", "t2"}

\* Roles and contents of the store scenario.
Roles == {User, Agent}
Contents == {<<"H", "i">>}
Limits == (0 - MaxNegLimit)..(MaxEntries + 1)
CheckpointIds == 0..(MaxEntries + 1)

\* Roles of the codec scenario: a plain tag, a tag that is a JSON number, a
\* tag between quotes; its contents are all texts of at most MaxLen.
CodecRoles == {User, <<"1">>, <<QUOTE, "n", QUOTE>>}

\* Inputs of the chat scenario.  The supervisor's answer is one of the two
\* task labels or natural language.
Prompts == {<<"H", "i">>, <<"1">>}
Responses == {<<"o", "k">>}
Decisions == {"coding_task", "rag_task", "natural language"}
\* memory.load_recent(3)
HistoryLimit == 3

\* ----------------------------------------------------------------- state

VARIABLES
    memory,     \* the rows of table memory, in insertion order
    conn,       \* "open" | "closed": the connection self.conn
    lastrowid,  \* self.cur.lastrowid
    ret,        \* the last call on the store or the formatter, and its outcome
    appended,   \* history: the calls that wrote memory[i], with what they returned
    chat        \* the last run of the script of src/main.py

vars == <<memory, conn, lastrowid, ret, appended, chat>>

\* Where a call takes or returns no number (Python's None), arg and val are 0.

Outcome(op, arg, exc, sel, val, text) ==
    [op |-> op, arg |-> arg, exc |-> exc, sel |-> sel, rows |-> Project(sel),
     val |-> val, text |-> text]

\* sqlite3 raises ProgrammingError ("Cannot operate on a closed database")
\* from cursor.execute on a closed connection; nothing is written.
Raises(op, arg) ==
    /\ ret' = Outcome(op, arg, "ProgrammingError", <<>>, 0, <<>>)
    /\ UNCHANGED <<memory, conn, lastrowid, appended, chat>>

NoChat == [runs |-> 0, submitted |-> FALSE, prompt |-> <<>>, decision |-> "",
           response |-> <<>>, exc |-> "none", calls |-> <<>>]

Init ==
    /\ memory = <<>>
    /\ conn = "open"
    /\ lastrowid = 0
    /\ ret = Outcome("__init__", 0, "none", <<>>, 0, <<>>)
    /\ appended = <<>>
    /\ chat = NoChat

\* --------------------------------------------------- SQLiteMemory methods

save_on_closed(role, content, ts) ==
    /\ memory' = SaveRows(memory, role, content, ts)
    /\ lastrowid' = NextRowid(memory)
    /\ ret' = Outcome("save", 0, "none", <<>>, 0, <<>>)
    /\ appended' = Append(appended, [op |-> "save", role |-> role,
                                     content |-> content, val |-> 0])
    /\ UNCHANGED <<conn, chat>>

save(role, content, ts) ==
    IF conn = "closed" THEN Raises("save", 0)
    ELSE /\ memory' = SaveRows(memory, role, content, ts)
         /\ lastrowid' = NextRowid(memory)
         /\ ret' = Outcome("save", 0, "none", <<>>, 0, <<>>)
         /\ appended' = Append(appended, [op |-> "save", role |-> role,
                                          content |-> content, val |-> 0])
         /\ UNCHANGED <<conn, chat>>

save_checkpoint(role, content, ts) ==
    IF conn = "closed" THEN Raises("save_checkpoint", 0)
    ELSE /\ memory' = CheckpointRows(memory, role, content, ts)
         /\ lastrowid' = NextRowid(memory)
         /\ ret' = Outcome("save_checkpoint", 0, "none", <<>>, lastrowid', <<>>)
         /\ appended' = Append(appended, [op |-> "save_checkpoint", role |-> role,
                                          content |-> content, val |-> lastrowid'])
         /\ UNCHANGED <<conn, chat>>

load_recent(limit) ==
    IF conn = "closed" THEN Raises("load_recent", limit)
    ELSE /\ ret' = Outcome("load_recent", limit, "none",
                           SelectRecent(memory, limit), 0, <<>>)
         /\ UNCHANGED <<memory, conn, lastrowid, appended, chat>>

load_from_checkpoint(checkpoint_id) ==
    IF conn = "closed" THEN Raises("load_from_checkpoint", checkpoint_id)
    ELSE /\ ret' = Outcome("load_from_checkpoint", checkpoint_id, "none",
                           IF CheckpointExists(memory, checkpoint_id)
                           THEN SelectUpTo(memory, checkpoint_id) ELSE <<>>,
                           0, <<>>)
         /\ UNCHANGED <<memory, conn, lastrowid, appended, chat>>

close ==
    /\ conn' = "closed"
    /\ ret' = Outcome("close", 0, "none", <<>>, 0, <<>>)
    /\ UNCHANGED <<memory, lastrowid, appended, chat>>

\* convert_tuple_list_to_text applied to the rows the last load returned.
format ==
    /\ ret.op \in {"load_recent", "load_from_checkpoint"}
    /\ ret.exc = "none"
    /\ \E out \in {convert_tuple_list_to_text(ret.rows)} :
          ret' = [ret EXCEPT !.op = "convert_tuple_list_to_text",
                             !.exc = out.exc, !.text = out.text]
    /\ UNCHANGED <<memory, conn, lastrowid, appended, chat>>

\* ------------------------------------------------------ the store scenario

Next ==
    \/ \E role \in Roles, content \in Contents, ts \in Timestamps :
          Len(memory) < MaxEntries /\ save(role, content, ts)
    \/ \E role \in Roles, content \in Contents, ts \in Timestamps :
          Len(memory) < MaxEntries /\ save_checkpoint(role, content, ts)
    \/ \E limit \in Limits : load_recent(limit)
    \/ \E checkpoint_id \in CheckpointIds : load_from_checkpoint(checkpoint_id)
    \/ close
    \/ format

Spec == Init /\ [][Next]_vars

\* ------------------------------------------------------ the codec scenario
\* One write to a fresh store with any role of CodecRoles and any text of at
\* most MaxLen, read back by load_recent and formatted.

NextCodec ==
    \/ /\ memory = <<>>
       /\ \E role \in CodecRoles, content \in TextsUpTo(MaxLen), ts \in Timestamps :
             save(role, content, ts)
    \/ /\ memory = <<>>
       /\ \E role \in CodecRoles, content \in TextsUpTo(MaxLen), ts \in Timestamps :
             save_checkpoint(role, content, ts)
    \/ memory # <<>> /\ ret.op # "load_recent" /\ load_recent(HistoryLimit)
    \/ format

SpecCodec == Init /\ [][NextCodec]_vars

\* ------------------------------------------------------- the chat scenario
\* Streamlit runs the script of src/main.py from its first line, in a fresh
\* namespace, when the page loads and again each time the user submits a
\* prompt.  Each run opens the database file and writes the session
\* checkpoint (lines 121-122) before it reaches the chat input (line 145).

Call(op, role, content, limit) ==
    [op |-> op, role |-> role, content |-> content, limit |-> limit]

Written(op, role, content, val) ==
    [op |-> op, role |-> role, content |-> content, val |-> val]

\* A run that st.chat_input answers with no prompt.
script_run_idle(ts0) ==
    /\ memory' = CheckpointRows(memory, NewSessionStarted, <<>>, ts0)
    /\ lastrowid' = NextRowid(memory)
    /\ appended' = Append(appended, Written("save_checkpoint", NewSessionStarted,
                                            <<>>, NextRowid(memory)))
    /\ conn' = "open"
    /\ chat' = [NoChat EXCEPT !.runs = chat.runs + 1]
    /\ UNCHANGED ret

\* What lines 145-173 do on the rows mem1 once the history is formatted: the
\* branch on decision.raw binds result only for the two task labels, so
\* result.raw of line 173 raises NameError after line 172 saved the prompt.
Handle(mem1, app1, history, prompt, decision, response, ts1, ts2) ==
    IF history.exc # "none" THEN
        /\ memory' = mem1
        /\ appended' = app1
        /\ chat' = [runs |-> chat.runs + 1, submitted |-> TRUE, prompt |-> prompt,
                    decision |-> "", response |-> <<>>, exc |-> history.exc,
                    calls |-> <<Call("load_recent", <<>>, <<>>, HistoryLimit)>>]
    ELSE IF decision \notin {"coding_task", "rag_task"} THEN
        /\ memory' = SaveRows(mem1, User, prompt, ts1)
        /\ appended' = Append(app1, Written("save", User, prompt, 0))
        /\ chat' = [runs |-> chat.runs + 1, submitted |-> TRUE, prompt |-> prompt,
                    decision |-> decision, response |-> <<>>, exc |-> "NameError",
                    calls |-> <<Call("load_recent", <<>>, <<>>, HistoryLimit),
                                Call("save", User, prompt, 0)>>]
    ELSE
        /\ memory' = SaveRows(SaveRows(mem1, User, prompt, ts1), Agent, response, ts2)
        /\ appended' = app1 \o <<Written("save", User, prompt, 0),
                                 Written("save", Agent, response, 0)>>
        /\ chat' = [runs |-> chat.runs + 1, submitted |-> TRUE, prompt |-> prompt,
                    decision |-> decision, response |-> response, exc |-> "none",
                    calls |-> <<Call("load_recent", <<>>, <<>>, HistoryLimit),
                                Call("save", User, prompt, 0),
                                Call("save", Agent, response, 0)>>]

\* A run in which the user submitted prompt.
script_run(prompt, decision, response, ts0, ts1, ts2) ==
    /\ \E mem1 \in {CheckpointRows(memory, NewSessionStarted, <<>>, ts0)} :
       \E history \in {convert_tuple_list_to_text(
                           Project(SelectRecent(mem1, HistoryLimit)))} :
          Handle(mem1,
                 Append(appended, Written("save_checkpoint", NewSessionStarted,
                                          <<>>, NextRowid(memory))),
                 history, prompt, decision, response, ts1, ts2)
    /\ lastrowid' = memory'[Len(memory')].id
    /\ conn' = "open"
    /\ UNCHANGED ret

NextChat ==
    \/ /\ chat.runs < MaxRuns
       /\ \E ts0 \in Timestamps : script_run_idle(ts0)
    \/ /\ chat.runs < MaxRuns
       /\ \E prompt \in Prompts, decision \in Decisions, response \in Responses,
             ts0 \in Timestamps, ts1 \in Timestamps, ts2 \in Timestamps :
             script_run(prompt, decision, response, ts0, ts1, ts2)

SpecChat == Init /\ [][NextChat]_vars

\* ------------------------------------------------------------- properties

\* The call that wrote the row with this id, as appended records it.
WrittenBy(id) ==
    appended[CHOOSE j \in 1..Len(memory) : memory[j].id = id]

Loaded(op) == ret.op = op /\ ret.exc = "none"

\* C1: for a limit n >= 0, load_recent(n) selects exactly min(n, number of
\* rows) rows, in strictly descending id order, and they are the rows with
\* the highest ids, checkpoint rows included.
C1_LoadRecentTopN ==
    (Loaded("load_recent") /\ ret.arg >= 0) =>
        /\ Len(ret.sel) = Min(ret.arg, Len(memory))
        /\ \A i \in 1..(Len(ret.sel) - 1) : ret.sel[i].id > ret.sel[i + 1].id
        /\ Range(ret.sel) \subseteq Range(memory)
        /\ \A r \in Range(memory) \ Range(ret.sel) :
              \A i \in 1..Len(ret.sel) : r.id < ret.sel[i].id

\* load_recent(2) on three rows returned a checkpoint row and a saved row.
C1_Witness ==
    /\ Loaded("load_recent") /\ ret.arg = 2 /\ Len(memory) = 3
    /\ Len(ret.sel) = 2
    /\ ret.sel[1].is_checkpoint /\ ~ret.sel[2].is_checkpoint

\* C2: load_recent(limit) with limit <= 0 returns no rows.
C2_NonPositiveLimitEmpty ==
    (Loaded("load_recent") /\ ret.arg <= 0) => ret.rows = <<>>

\* C3 (as claimed): the pair load_recent returns for a row written by
\* save(role, content) is (role, content), the original text.
C3_LoadRecentDecoded ==
    Loaded("load_recent") =>
        \A i \in 1..Len(ret.sel) :
            WrittenBy(ret.sel[i].id).op = "save" =>
                ret.rows[i] = <<WrittenBy(ret.sel[i].id).role,
                                WrittenBy(ret.sel[i].id).content>>

\* C3 (amended): the pair load_recent returns for a row written by
\* save(role, content) is (role, json.dumps(content)), the stored encoded
\* form, and json.loads of that form is the original text.
C3_LoadRecentEncoded ==
    Loaded("load_recent") =>
        \A i \in 1..Len(ret.sel) :
            WrittenBy(ret.sel[i].id).op = "save" =>
                /\ ret.rows[i] = <<WrittenBy(ret.sel[i].id).role,
                                   json_dumps(WrittenBy(ret.sel[i].id).content)>>
                /\ json_loads(ret.rows[i][2]) =
                      [tag |-> "str", val |-> WrittenBy(ret.sel[i].id).content]

\* load_recent returned a row that save wrote with a quote, a newline and a
\* backslash in its content.
C3_Witness ==
    /\ Loaded("load_recent") /\ Len(ret.sel) = 1
    /\ WrittenBy(ret.sel[1].id).op = "save"
    /\ WrittenBy(ret.sel[1].id).content = <<QUOTE, NEWLINE, BACKSLASH>>

\* C4: load_from_checkpoint(k), for a k that save_checkpoint(label, payload)
\* returned, selects every row with id <= k and no other, in ascending id
\* order, and the role of the last one is label.
C4_CheckpointReplay ==
    \A j \in 1..Len(appended) :
        (/\ Loaded("load_from_checkpoint")
         /\ appended[j].op = "save_checkpoint"
         /\ appended[j].val = ret.arg) =>
            /\ Range(ret.sel) = {r \in Range(memory) : r.id <= ret.arg}
            /\ \A i \in 1..(Len(ret.sel) - 1) : ret.sel[i].id < ret.sel[i + 1].id
            /\ ret.rows # <<>>
            /\ ret.rows[Len(ret.rows)][1] = appended[j].role

\* load_from_checkpoint(2) after save, save_checkpoint (which returned 2) and
\* one more write returned the first two rows.
C4_Witness ==
    /\ Loaded("load_from_checkpoint") /\ ret.arg = 2 /\ Len(memory) = 3
    /\ appended[1].op = "save"
    /\ appended[2].op = "save_checkpoint" /\ appended[2].val = 2
    /\ Len(ret.rows) = 2

\* Whether k is the id of no row or of a row that save wrote.
NotACheckpoint(k) ==
    \A j \in 1..Len(memory) : memory[j].id = k => appended[j].op = "save"

\* C5: on an open store, load_from_checkpoint(k) for a k that is the id of no
\* row or of a row written by save returns an empty list, raises nothing and
\* leaves the table as it was.
C5_CheckpointNotFound ==
    [][(/\ ret'.op = "load_from_checkpoint"
        /\ conn = "open"
        /\ NotACheckpoint(ret'.arg)) =>
           (ret'.exc = "none" /\ ret'.rows = <<>> /\ memory' = memory)]_vars

\* load_from_checkpoint was called with the id of a row that save wrote.
C5_Witness ==
    /\ Loaded("load_from_checkpoint")
    /\ \E j \in 1..Len(memory) :
          memory[j].id = ret.arg /\ appended[j].op = "save"
    /\ ret.rows = <<>>

\* C6: convert_tuple_list_to_text raises on no rows the store returns.
C6_FormatNeverThrows ==
    ret.op = "convert_tuple_list_to_text" => ret.exc = "none"

\* C7: for the one row save(role, x) wrote, load_recent and
\* convert_tuple_list_to_text yield exactly role + ": " + x.
C7_RoundTripExact ==
    (/\ ret.op = "convert_tuple_list_to_text"
     /\ Len(ret.sel) = 1
     /\ WrittenBy(ret.sel[1].id).op = "save") =>
        /\ ret.exc = "none"
        /\ ret.text = WrittenBy(ret.sel[1].id).role \o <<":", " ">>
                         \o WrittenBy(ret.sel[1].id).content

\* C8: once the connection is closed it stays closed, the table is not
\* written, and a save or load_recent call raises (sqlite3.ProgrammingError)
\* and returns nothing.
C8_ClosedStoreFails ==
    [][conn = "closed" =>
          /\ conn' = "closed"
          /\ memory' = memory
          /\ ret'.op \in {"save", "load_recent"} =>
                (ret'.exc = "ProgrammingError" /\ ret'.rows = <<>>)]_vars

\* save was called on a closed store that holds rows.
C8_Witness ==
    /\ conn = "closed" /\ ret.op = "save" /\ ret.exc = "ProgrammingError"
    /\ Len(memory) = 2

\* C9: every step keeps the rows already written as they are and in place,
\* ids strictly increase in insertion order, and is_checkpoint is set on
\* exactly the rows save_checkpoint wrote.
C9_AppendOnly ==
    [][/\ Len(memory') >= Len(memory)
       /\ SubSeq(memory', 1, Len(memory)) = memory
       /\ \A i \in 1..(Len(memory') - 1) : memory'[i].id < memory'[i + 1].id
       /\ Len(appended') = Len(memory')
       /\ \A i \in 1..Len(memory') :
             memory'[i].is_checkpoint = (appended'[i].op = "save_checkpoint")]_vars

\* Three rows, a checkpoint among them, with the store closed after reads.
C9_Witness ==
    /\ Len(memory) = 3 /\ conn = "closed"
    /\ memory[2].is_checkpoint /\ ~memory[1].is_checkpoint /\ ~memory[3].is_checkpoint
    /\ <<memory[1].id, memory[2].id, memory[3].id>> = <<1, 2, 3>>

\* C10: a run that handles a prompt calls load_recent(3), then
\* save("User", prompt), then save("Agent", response), and writes nothing
\* else, whatever the supervisor answered.
C10_TwoAppendsPerPrompt ==
    chat.submitted =>
        /\ Len(chat.calls) = 3
        /\ chat.calls[1] = Call("load_recent", <<>>, <<>>, HistoryLimit)
        /\ chat.calls[2] = Call("save", User, chat.prompt, 0)
        /\ chat.calls[3].op = "save" /\ chat.calls[3].role = Agent

====
